---- MODULE Spec2Model ----
(***************************************************************************)
(* A model of the two scripts of the SafeCart repository:                  *)
(*   convert_pdf.py  pdf_to_text(pdf_path, output_path) and its __main__   *)
(*   api.py          the module-level recall lookup                        *)
(* Each script is a sequential process; a variable pc (apiPc) holds the    *)
(* statement it is about to execute.  The file system, the platform line   *)
(* separator and the network are the environment.                          *)
(***************************************************************************)
EXTENDS Naturals, Sequences, FiniteSets

VARIABLES
    srcFile,     \* the file at pdf_path: [kind, pages]
    linesep,     \* os.linesep of the platform, as code points
    dest,        \* the file at output_path: [exists, bytes]
    pc,          \* statement pdf_to_text is about to execute
    srcOpen,     \* the handle `file` (line 6) is open
    dstOpen,     \* the handle `output_file` (line 14) is open
    dstBuf,      \* bytes written to output_file and not yet flushed
    text,        \* local `text`, a sequence of code points
    num_pages,   \* len(pdf_reader.pages), evaluated once by range()
    it,          \* position of the range iterator
    page_num,    \* loop variable
    exc,         \* the exception in flight or caught, None if none
    out,         \* lines printed to stdout by this run of convert_pdf.py
    runs,        \* how many times the script has been started
    destAtCall,  \* history: dest when the current call began
    failedAt,    \* history: the step of the current call that raised
    prevOk,      \* history: the previous run printed the success message
    prevDest,    \* history: dest when the previous run ended
    apiPc,       \* statement api.py is about to execute
    sent,        \* requests api.py has handed to requests.get
    response,    \* the value bound to `response`
    apiExc,      \* the exception that ended api.py, None if none
    apiOut,      \* lines printed to stdout by api.py
    apiRuns      \* how many times api.py has been started

pdfVars == <<srcFile, linesep, dest, pc, srcOpen, dstOpen, dstBuf, text,
             num_pages, it, page_num, exc, out, runs, destAtCall, failedAt,
             prevOk, prevDest>>
apiVars == <<apiPc, sent, response, apiExc, apiOut, apiRuns>>
vars == <<pdfVars, apiVars>>

(***************************************************************************)
(* Bounds of the model.                                                    *)
(***************************************************************************)
MaxPages == 2
MaxRuns == 2

(***************************************************************************)
(* convert_pdf.py: constants of the script.                                *)
(***************************************************************************)
pdf_path == "Recall-API-documentation.pdf"
output_path == "Recall-API-documentation.txt"

\* Texts a page's extract_text() may return, as code points:
\* "", "a", "a\n", U+00E9, and the lone surrogate U+D800.
PageTexts == { <<>>, <<97>>, <<97, 10>>, <<233>>, <<55296>> }

\* A page either yields a text or makes extract_text() raise.
Pages == [ok : {TRUE}, text : PageTexts] \cup [ok : {FALSE}, text : {<<>>}]

SeqsUpTo(S, n) == UNION { [1..k -> S] : k \in 0..n }

\* What may be found at pdf_path.
SrcFiles ==
    { [kind |-> "missing", pages |-> <<>>], [kind |-> "corrupt", pages |-> <<>>] }
    \cup { [kind |-> "pdf", pages |-> p] : p \in SeqsUpTo(Pages, MaxPages) }

NoFile == [exists |-> FALSE, bytes |-> <<>>]
File(b) == [exists |-> TRUE, bytes |-> b]

\* What may be found at output_path before the first run.
DestFiles == { NoFile, File(<<>>), File(<<98>>) }

LineSeps == { <<10>>, <<13, 10>> }

(***************************************************************************)
(* Exceptions.  All the failures of the steps of pdf_to_text are instances *)
(* of subclasses of Exception; str(e) is the message.                      *)
(***************************************************************************)
None == [type |-> "None", msg |-> ""]
FileNotFoundError ==
    [type |-> "FileNotFoundError",
     msg |-> "[Errno 2] No such file or directory: '" \o pdf_path \o "'"]
PdfReadError == [type |-> "PdfReadError", msg |-> "EOF marker not found"]
ExtractError == [type |-> "KeyError", msg |-> "'/Contents'"]
PermissionError ==
    [type |-> "PermissionError",
     msg |-> "[Errno 13] Permission denied: '" \o output_path \o "'"]
UnicodeEncodeError ==
    [type |-> "UnicodeEncodeError",
     msg |-> "'utf-8' codec can't encode character '\\ud800': surrogates not allowed"]
NoSpaceError == [type |-> "OSError", msg |-> "[Errno 28] No space left on device"]

\* The classes `except Exception` catches.
ExceptionClasses ==
    { "FileNotFoundError", "PdfReadError", "KeyError", "PermissionError",
      "UnicodeEncodeError", "OSError" }

str(e) == e.msg

(***************************************************************************)
(* open(output_path, 'w', encoding='utf-8'): text written is translated    *)
(* ("\n" becomes os.linesep) and encoded as UTF-8, errors='strict'.        *)
(***************************************************************************)
IsSurrogate(cp) == cp >= 55296 /\ cp <= 57343

Encodable(t) == \A i \in 1..Len(t) : ~IsSurrogate(t[i])

Utf8Char(cp) ==
    IF cp < 128 THEN <<cp>>
    ELSE IF cp < 2048 THEN <<192 + (cp \div 64), 128 + (cp % 64)>>
    ELSE <<224 + (cp \div 4096), 128 + ((cp \div 64) % 64), 128 + (cp % 64)>>

RECURSIVE TranslateNewlines(_, _)
TranslateNewlines(t, sep) ==
    IF t = <<>> THEN <<>>
    ELSE (IF Head(t) = 10 THEN sep ELSE <<Head(t)>>)
         \o TranslateNewlines(Tail(t), sep)

RECURSIVE Utf8Encode(_)
Utf8Encode(t) ==
    IF t = <<>> THEN <<>> ELSE Utf8Char(Head(t)) \o Utf8Encode(Tail(t))

EncodeText(t, sep) == Utf8Encode(TranslateNewlines(t, sep))

Prefix(s, k) == SubSeq(s, 1, k)

(***************************************************************************)
(* pdf_to_text                                                             *)
(***************************************************************************)
\* Mutant of HandlerPc: the guard written as `except OSError`.
HandlerPcOSError(e) ==
    IF e.type \in {"FileNotFoundError", "PermissionError", "OSError"}
    THEN "except" ELSE "crashed"

\* Where an exception raised in the try block goes: line 19 catches it when
\* it is an instance of Exception, otherwise it leaves pdf_to_text.
HandlerPc(e) == IF e.type \in ExceptionClasses THEN "except" ELSE "crashed"

PdfInit ==
    /\ srcFile \in SrcFiles
    /\ linesep \in LineSeps
    /\ dest \in DestFiles
    /\ pc = "idle"
    /\ srcOpen = FALSE
    /\ dstOpen = FALSE
    /\ dstBuf = <<>>
    /\ text = <<>>
    /\ num_pages = 0
    /\ it = 0
    /\ page_num = 0
    /\ exc = None
    /\ out = <<>>
    /\ runs = 0
    /\ destAtCall = dest
    /\ failedAt = "none"
    /\ prevOk = FALSE
    /\ prevDest = dest

\* python convert_pdf.py: lines 22-23 call pdf_to_text with the fixed paths.
Main ==
    /\ pc \in {"idle", "done", "crashed"}
    /\ UNCHANGED apiVars
    /\ runs < MaxRuns
    /\ runs' = runs + 1
    /\ pc' = "open_src"
    /\ srcOpen' = FALSE
    /\ dstOpen' = FALSE
    /\ dstBuf' = <<>>
    /\ text' = <<>>
    /\ num_pages' = 0
    /\ it' = 0
    /\ page_num' = 0
    /\ exc' = None
    /\ out' = <<>>
    /\ destAtCall' = dest
    /\ failedAt' = "none"
    /\ prevOk' = (pc = "done" /\ failedAt = "none")
    /\ prevDest' = dest
    /\ UNCHANGED <<srcFile, linesep, dest>>

\* Mutant of OpenSrc: both files opened by the one with statement, so the
\* destination is truncated before anything is read.
OpenSrcAndDst ==
    /\ pc = "open_src"
    /\ UNCHANGED apiVars
    /\ IF srcFile.kind = "missing"
       THEN /\ exc' = FileNotFoundError
            /\ failedAt' = "open_src"
            /\ pc' = HandlerPc(FileNotFoundError)
            /\ UNCHANGED <<srcOpen, dest>>
       ELSE /\ srcOpen' = TRUE
            /\ dest' = File(<<>>)
            /\ pc' = "reader"
            /\ UNCHANGED <<exc, failedAt>>
    /\ UNCHANGED <<srcFile, linesep, dstOpen, dstBuf, text, num_pages, it,
                   page_num, out, runs, destAtCall, prevOk, prevDest>>

\* line 6: with open(pdf_path, 'rb') as file
OpenSrc ==
    /\ pc = "open_src"
    /\ UNCHANGED apiVars
    /\ IF srcFile.kind = "missing"
       THEN /\ exc' = FileNotFoundError
            /\ failedAt' = "open_src"
            /\ pc' = HandlerPc(FileNotFoundError)
            /\ UNCHANGED srcOpen
       ELSE /\ srcOpen' = TRUE
            /\ pc' = "reader"
            /\ UNCHANGED <<exc, failedAt>>
    /\ UNCHANGED <<srcFile, linesep, dest, dstOpen, dstBuf, text, num_pages, it,
                   page_num, out, runs, destAtCall, prevOk, prevDest>>

\* line 7: pdf_reader = PyPDF2.PdfReader(file)
PdfReader ==
    /\ pc = "reader"
    /\ UNCHANGED apiVars
    /\ IF srcFile.kind = "corrupt"
       THEN /\ exc' = PdfReadError
            /\ failedAt' = "reader"
            /\ pc' = "exit_src"
       ELSE /\ pc' = "init_text"
            /\ UNCHANGED <<exc, failedAt>>
    /\ UNCHANGED <<srcFile, linesep, dest, srcOpen, dstOpen, dstBuf, text,
                   num_pages, it, page_num, out, runs, destAtCall, prevOk,
                   prevDest>>

\* line 8: text = ""
InitText ==
    /\ pc = "init_text"
    /\ UNCHANGED apiVars
    /\ text' = <<>>
    /\ pc' = "range"
    /\ UNCHANGED <<srcFile, linesep, dest, srcOpen, dstOpen, dstBuf, num_pages,
                   it, page_num, exc, out, runs, destAtCall, failedAt, prevOk,
                   prevDest>>

\* line 10: range(len(pdf_reader.pages)) is evaluated once
ForRange ==
    /\ pc = "range"
    /\ UNCHANGED apiVars
    /\ num_pages' = Len(srcFile.pages)
    /\ it' = 0
    /\ pc' = "for_next"
    /\ UNCHANGED <<srcFile, linesep, dest, srcOpen, dstOpen, dstBuf, text,
                   page_num, exc, out, runs, destAtCall, failedAt, prevOk,
                   prevDest>>

\* line 10: for page_num in ...: the next value, or the end of the loop
ForNext ==
    /\ pc = "for_next"
    /\ UNCHANGED apiVars
    /\ IF it < num_pages
       THEN /\ page_num' = it
            /\ it' = it + 1
            /\ pc' = "extract"
       ELSE /\ pc' = "exit_src"
            /\ UNCHANGED <<page_num, it>>
    /\ UNCHANGED <<srcFile, linesep, dest, srcOpen, dstOpen, dstBuf, text,
                   num_pages, exc, out, runs, destAtCall, failedAt, prevOk,
                   prevDest>>

\* Mutant of ExtractPage: text = page.extract_text() + text.
ExtractPagePrepend ==
    /\ pc = "extract"
    /\ UNCHANGED apiVars
    /\ LET page == srcFile.pages[page_num + 1] IN
       IF page.ok
       THEN /\ text' = page.text \o text
            /\ pc' = "for_next"
            /\ UNCHANGED <<exc, failedAt>>
       ELSE /\ exc' = ExtractError
            /\ failedAt' = "extract"
            /\ pc' = "exit_src"
            /\ UNCHANGED text
    /\ UNCHANGED <<srcFile, linesep, dest, srcOpen, dstOpen, dstBuf, num_pages,
                   it, page_num, out, runs, destAtCall, prevOk, prevDest>>

\* lines 11-12: page = pdf_reader.pages[page_num]; text += page.extract_text()
ExtractPage ==
    /\ pc = "extract"
    /\ UNCHANGED apiVars
    /\ LET page == srcFile.pages[page_num + 1] IN
       IF page.ok
       THEN /\ text' = text \o page.text
            /\ pc' = "for_next"
            /\ UNCHANGED <<exc, failedAt>>
       ELSE /\ exc' = ExtractError
            /\ failedAt' = "extract"
            /\ pc' = "exit_src"
            /\ UNCHANGED text
    /\ UNCHANGED <<srcFile, linesep, dest, srcOpen, dstOpen, dstBuf, num_pages,
                   it, page_num, out, runs, destAtCall, prevOk, prevDest>>

\* Mutant of ExitSrc: no with statement, file.close() only at the end of the
\* block, so an exception skips it.
ExitSrcLeak ==
    /\ pc = "exit_src"
    /\ UNCHANGED apiVars
    /\ srcOpen' = (exc # None)
    /\ pc' = IF exc = None THEN "open_dst" ELSE HandlerPc(exc)
    /\ UNCHANGED <<srcFile, linesep, dest, dstOpen, dstBuf, text, num_pages, it,
                   page_num, exc, out, runs, destAtCall, failedAt, prevOk,
                   prevDest>>

\* line 6, leaving the with block (normally or by an exception): file.close()
ExitSrc ==
    /\ pc = "exit_src"
    /\ UNCHANGED apiVars
    /\ srcOpen' = FALSE
    /\ pc' = IF exc = None THEN "open_dst" ELSE HandlerPc(exc)
    /\ UNCHANGED <<srcFile, linesep, dest, dstOpen, dstBuf, text, num_pages, it,
                   page_num, exc, out, runs, destAtCall, failedAt, prevOk,
                   prevDest>>

\* Mutant of OpenDst: mode 'a', which creates the file but does not truncate.
OpenDstAppend ==
    /\ pc = "open_dst"
    /\ UNCHANGED apiVars
    /\ \/ /\ dstOpen' = TRUE
          /\ dest' = File(dest.bytes)
          /\ dstBuf' = <<>>
          /\ pc' = "write"
          /\ UNCHANGED <<exc, failedAt>>
       \/ /\ exc' = PermissionError
          /\ failedAt' = "open_dst"
          /\ pc' = HandlerPc(PermissionError)
          /\ UNCHANGED <<dstOpen, dest, dstBuf>>
    /\ UNCHANGED <<srcFile, linesep, srcOpen, text, num_pages, it, page_num,
                   out, runs, destAtCall, prevOk, prevDest>>

\* line 14: with open(output_path, 'w', encoding='utf-8') as output_file
\* Mode 'w' creates the file or truncates it; the open may be refused.
OpenDst ==
    /\ pc = "open_dst"
    /\ UNCHANGED apiVars
    /\ \/ /\ dstOpen' = TRUE
          /\ dest' = File(<<>>)
          /\ dstBuf' = <<>>
          /\ pc' = "write"
          /\ UNCHANGED <<exc, failedAt>>
       \/ /\ exc' = PermissionError
          /\ failedAt' = "open_dst"
          /\ pc' = HandlerPc(PermissionError)
          /\ UNCHANGED <<dstOpen, dest, dstBuf>>
    /\ UNCHANGED <<srcFile, linesep, srcOpen, text, num_pages, it, page_num,
                   out, runs, destAtCall, prevOk, prevDest>>

\* line 15: output_file.write(text).  The text is encoded into the buffer;
\* a flush forced by the write may fail after part of the bytes reached the
\* file.
WriteText ==
    /\ pc = "write"
    /\ UNCHANGED apiVars
    /\ IF ~Encodable(text)
       THEN /\ exc' = UnicodeEncodeError
            /\ failedAt' = "write"
            /\ UNCHANGED <<dest, dstBuf>>
       ELSE LET b == EncodeText(text, linesep) IN
            \/ /\ dstBuf' = dstBuf \o b
               /\ UNCHANGED <<dest, exc, failedAt>>
            \/ \E k \in 0..(Len(b) - 1) :
                  /\ dest' = File(dest.bytes \o Prefix(b, k))
                  /\ dstBuf' = <<>>
                  /\ exc' = NoSpaceError
                  /\ failedAt' = "write"
    /\ pc' = "exit_dst"
    /\ UNCHANGED <<srcFile, linesep, srcOpen, dstOpen, text, num_pages, it,
                   page_num, out, runs, destAtCall, prevOk, prevDest>>

\* line 14, leaving the with block: output_file.close() flushes the buffer
\* and closes the handle, also when the flush fails.
ExitDst ==
    /\ pc = "exit_dst"
    /\ UNCHANGED apiVars
    /\ dstOpen' = FALSE
    /\ dstBuf' = <<>>
    /\ IF exc # None
       THEN /\ pc' = HandlerPc(exc)
            /\ UNCHANGED <<dest, exc, failedAt>>
       ELSE \/ /\ dest' = File(dest.bytes \o dstBuf)
               /\ pc' = "print_ok"
               /\ UNCHANGED <<exc, failedAt>>
            \/ \E k \in 0..(Len(dstBuf) - 1) :
                  /\ dest' = File(dest.bytes \o Prefix(dstBuf, k))
                  /\ exc' = NoSpaceError
                  /\ failedAt' = "close_dst"
                  /\ pc' = HandlerPc(NoSpaceError)
    /\ UNCHANGED <<srcFile, linesep, srcOpen, text, num_pages, it, page_num,
                   out, runs, destAtCall, prevOk, prevDest>>

SuccessMessage == "PDF converted successfully to " \o output_path
ErrorMessage(e) == "Error converting PDF: " \o str(e)

\* line 17: print(f"PDF converted successfully to {output_path}")
PrintSuccess ==
    /\ pc = "print_ok"
    /\ UNCHANGED apiVars
    /\ out' = Append(out, SuccessMessage)
    /\ pc' = "done"
    /\ UNCHANGED <<srcFile, linesep, dest, srcOpen, dstOpen, dstBuf, text,
                   num_pages, it, page_num, exc, runs, destAtCall, failedAt,
                   prevOk, prevDest>>

\* Mutant of Except: the message printed without the error text.
ExceptNoText ==
    /\ pc = "except"
    /\ UNCHANGED apiVars
    /\ out' = Append(out, "Error converting PDF: ")
    /\ pc' = "done"
    /\ UNCHANGED <<srcFile, linesep, dest, srcOpen, dstOpen, dstBuf, text,
                   num_pages, it, page_num, exc, runs, destAtCall, failedAt,
                   prevOk, prevDest>>

\* Mutant of Except: the success message printed after the try statement
\* instead of inside it, so the handler falls through to it.
ExceptThenSuccess ==
    /\ pc = "except"
    /\ UNCHANGED apiVars
    /\ out' = Append(out, ErrorMessage(exc))
    /\ pc' = "print_ok"
    /\ UNCHANGED <<srcFile, linesep, dest, srcOpen, dstOpen, dstBuf, text,
                   num_pages, it, page_num, exc, runs, destAtCall, failedAt,
                   prevOk, prevDest>>

\* lines 19-20: except Exception as e: print(f"Error converting PDF: {str(e)}")
Except ==
    /\ pc = "except"
    /\ UNCHANGED apiVars
    /\ out' = Append(out, ErrorMessage(exc))
    /\ pc' = "done"
    /\ UNCHANGED <<srcFile, linesep, dest, srcOpen, dstOpen, dstBuf, text,
                   num_pages, it, page_num, exc, runs, destAtCall, failedAt,
                   prevOk, prevDest>>

PdfNext ==
    \/ Main \/ OpenSrc \/ PdfReader \/ InitText \/ ForRange \/ ForNext
    \/ ExtractPage \/ ExitSrc \/ OpenDst \/ WriteText \/ ExitDst
    \/ PrintSuccess \/ Except

(***************************************************************************)
(* api.py                                                                  *)
(***************************************************************************)
url == "https://www.fsis.usda.gov/fsis/api/recall/v/1"
params == [field_states_id |-> "29"]
headers ==
    [accept |-> "application/json",
     user_agent |-> "Mozilla/5.0 (Windows NT 10.0; Win64; x64) AppleWebKit/537.36 (KHTML, like Gecko) Chrome/138.0.0.0 Safari/537.36"]

\* What the server may answer: a status code and a body.
StatusCodes == {200, 403, 404, 500, 503}
Bodies == { "", "[]", "[{\"field_states\": \"California\"}]", "<html>Access Denied</html>" }
Responses == [status_code : StatusCodes, text : Bodies]

\* What requests.get raises when the endpoint cannot be reached.
ConnectionError ==
    [type |-> "ConnectionError", msg |-> "Max retries exceeded with url"]
Timeout == [type |-> "Timeout", msg |-> "Read timed out."]
NetworkErrors == {ConnectionError, Timeout}

\* print(n) of an int: its decimal digits.
Digit(d) ==
    CASE d = 0 -> "0" [] d = 1 -> "1" [] d = 2 -> "2" [] d = 3 -> "3"
      [] d = 4 -> "4" [] d = 5 -> "5" [] d = 6 -> "6" [] d = 7 -> "7"
      [] d = 8 -> "8" [] d = 9 -> "9"

RECURSIVE IntStr(_)
IntStr(n) == IF n < 10 THEN Digit(n) ELSE IntStr(n \div 10) \o Digit(n % 10)

ApiInit ==
    /\ apiPc = "idle"
    /\ sent = <<>>
    /\ response = None
    /\ apiExc = None
    /\ apiOut = <<>>
    /\ apiRuns = 0

\* python api.py: lines 1-12 import requests and bind url, params, headers.
ApiMain ==
    /\ apiPc \in {"idle", "done", "crashed"}
    /\ apiRuns < MaxRuns
    /\ apiRuns' = apiRuns + 1
    /\ apiPc' = "get"
    /\ sent' = <<>>
    /\ response' = None
    /\ apiExc' = None
    /\ apiOut' = <<>>
    /\ UNCHANGED pdfVars

\* Mutant of ApiGet: a failed request is tried once more.
ApiGetRetry ==
    /\ apiPc = "get"
    /\ sent' = Append(sent, [method |-> "GET", url |-> url, params |-> params,
                             headers |-> headers])
    /\ \/ \E r \in Responses :
             /\ response' = r
             /\ apiPc' = "print_status"
             /\ UNCHANGED apiExc
       \/ \E e \in NetworkErrors :
             /\ apiExc' = e
             /\ apiPc' = IF Len(sent) = 0 THEN "get" ELSE "crashed"
             /\ UNCHANGED response
    /\ UNCHANGED <<apiOut, apiRuns>>
    /\ UNCHANGED pdfVars

\* Mutant of ApiGet: the request is issued twice (once for the status, once
\* for the body).
ApiGetTwice ==
    /\ apiPc = "get"
    /\ LET req == [method |-> "GET", url |-> url, params |-> params,
                   headers |-> headers]
       IN sent' = Append(Append(sent, req), req)
    /\ \/ \E r \in Responses :
             /\ response' = r
             /\ apiPc' = "print_status"
             /\ UNCHANGED apiExc
       \/ \E e \in NetworkErrors :
             /\ apiExc' = e
             /\ apiPc' = "crashed"
             /\ UNCHANGED response
    /\ UNCHANGED <<apiOut, apiRuns>>
    /\ UNCHANGED pdfVars

\* line 14: response = requests.get(url, params=params, headers=headers)
\* No try statement encloses it: an exception ends the script.
ApiGet ==
    /\ apiPc = "get"
    /\ sent' = Append(sent, [method |-> "GET", url |-> url, params |-> params,
                             headers |-> headers])
    /\ \/ \E r \in Responses :
             /\ response' = r
             /\ apiPc' = "print_status"
             /\ UNCHANGED apiExc
       \/ \E e \in NetworkErrors :
             /\ apiExc' = e
             /\ apiPc' = "crashed"
             /\ UNCHANGED response
    /\ UNCHANGED <<apiOut, apiRuns>>
    /\ UNCHANGED pdfVars

\* Mutant of ApiPrintStatus: the two prints swapped, the body printed first.
ApiPrintStatusBody ==
    /\ apiPc = "print_status"
    /\ apiOut' = Append(apiOut, response.text)
    /\ apiPc' = "print_text"
    /\ UNCHANGED <<sent, response, apiExc, apiRuns>>
    /\ UNCHANGED pdfVars

\* line 15: print(response.status_code)
ApiPrintStatus ==
    /\ apiPc = "print_status"
    /\ apiOut' = Append(apiOut, IntStr(response.status_code))
    /\ apiPc' = "print_text"
    /\ UNCHANGED <<sent, response, apiExc, apiRuns>>
    /\ UNCHANGED pdfVars

\* line 16: print(response.text)
ApiPrintText ==
    /\ apiPc = "print_text"
    /\ apiOut' = Append(apiOut, response.text)
    /\ apiPc' = "done"
    /\ UNCHANGED <<sent, response, apiExc, apiRuns>>
    /\ UNCHANGED pdfVars

ApiNext == ApiMain \/ ApiGet \/ ApiPrintStatus \/ ApiPrintText

(***************************************************************************)
(* The two scripts are separate programs: Spec runs convert_pdf.py,        *)
(* SpecApi runs api.py, each in the same environment.                      *)
(***************************************************************************)
Init == PdfInit /\ ApiInit

Next == PdfNext

Spec == Init /\ [][Next]_vars

SpecApi == Init /\ [][ApiNext]_vars

(***************************************************************************)
(* Properties of convert_pdf.py, checked under Spec.                       *)
(***************************************************************************)
\* extract_text(p_1) + ... + extract_text(p_n), for pages that all extract.
RECURSIVE ConcatPages(_)
ConcatPages(ps) ==
    IF ps = <<>> THEN <<>> ELSE Head(ps).text \o ConcatPages(Tail(ps))

\* The source is a valid PDF and extraction succeeds on every page.
AllPagesOk ==
    /\ srcFile.kind = "pdf"
    /\ \A i \in 1..Len(srcFile.pages) : srcFile.pages[i].ok

\* The destination holds exactly the text t, as the text file the code opens.
DestHolds(t) == dest = File(EncodeText(t, linesep))

Printed(m) == \E i \in 1..Len(out) : out[i] = m

DestFailures == {"open_dst", "write", "close_dst"}
SourceFailures == {"open_src", "reader", "extract"}

C2_MissingInput ==
    (srcFile.kind = "missing" /\ pc # "idle") =>
        /\ dest = destAtCall
        /\ ~dstOpen
        /\ ~Printed(SuccessMessage)
        /\ pc # "crashed"
        /\ pc = "done" =>
              out = <<"Error converting PDF: [Errno 2] No such file or directory: 'Recall-API-documentation.pdf'">>

C2_Witness ==
    /\ srcFile.kind = "missing"
    /\ pc = "done"
    /\ dest = File(<<98>>)
    /\ Len(out) = 1

\* C3: no failure of a step of pdf_to_text leaves the function: whichever
\* step raised, control is in the with-exit, in the handler or past it, never
\* outside the guard, and on return the one line printed is the error
\* message carrying the text of that failure.
C3_AllFailuresCaught ==
    /\ pc # "crashed"
    /\ failedAt # "none" =>
          /\ exc # None
          /\ pc \in {"exit_src", "exit_dst", "except", "done"}
          /\ pc = "done" => out = <<"Error converting PDF: " \o exc.msg>>
    /\ exc # None => failedAt # "none"

C3_Witness ==
    /\ pc = "done"
    /\ failedAt = "extract"
    /\ page_num = 1
    /\ out = <<"Error converting PDF: '/Contents'">>

C8_HandlesClosed ==
    /\ ~(srcOpen /\ dstOpen)
    /\ pc \in {"open_dst", "write", "exit_dst", "print_ok"} => ~srcOpen
    /\ pc = "except" => (~srcOpen /\ ~dstOpen)
    /\ out # <<>> => (~srcOpen /\ ~dstOpen)
    /\ pc \in {"idle", "done", "crashed"} => (~srcOpen /\ ~dstOpen)

C8_Witness ==
    /\ pc = "except"
    /\ failedAt = "extract"
    /\ page_num = 1
    /\ ~srcOpen

\* C9: the destination is open only once every page has been extracted, and
\* when opening the source, constructing the reader or extracting a page
\* fails the destination is as it was when the call began; a call that
\* failed and changed the destination failed at the destination.
C9_NoPartialOutput ==
    /\ failedAt \in SourceFailures => (dest = destAtCall /\ ~dstOpen)
    /\ (dstOpen \/ dest # destAtCall) =>
          /\ AllPagesOk
          /\ it = Len(srcFile.pages)
          /\ text = ConcatPages(srcFile.pages)
          /\ pc \in {"write", "exit_dst", "print_ok", "except", "done"}
    /\ (failedAt # "none" /\ dest # destAtCall) => failedAt \in DestFailures

C9_Witness ==
    /\ pc = "done"
    /\ failedAt = "extract"
    /\ page_num = 1
    /\ text = <<97>>
    /\ destAtCall = File(<<98>>)
    /\ dest = File(<<98>>)

\* C10: a call prints at most one line, and when it has returned exactly
\* one: the success message or the error message, the first only when no step
\* failed, the full text is in the destination and the destination is closed,
\* the second only when a step failed.
C10_OneOutcomeMessage ==
    /\ Len(out) <= 1
    /\ pc = "done" =>
          /\ Len(out) = 1
          /\ out[1] \in {SuccessMessage, "Error converting PDF: " \o exc.msg}
    /\ pc \notin {"done", "crashed"} => out = <<>>
    /\ Printed(SuccessMessage) =>
          /\ failedAt = "none"
          /\ DestHolds(ConcatPages(srcFile.pages))
          /\ ~dstOpen
          /\ dstBuf = <<>>
    /\ (Len(out) = 1 /\ ~Printed(SuccessMessage)) => failedAt # "none"

C10_Witness ==
    /\ pc = "done"
    /\ out = <<"PDF converted successfully to Recall-API-documentation.txt">>
    /\ dest = File(<<97, 195, 169>>)

(***************************************************************************)
(* Properties of api.py, checked under SpecApi.                            *)
(***************************************************************************)
FixedRequest ==
    [method |-> "GET",
     url |-> "https://www.fsis.usda.gov/fsis/api/recall/v/1",
     params |-> [field_states_id |-> "29"],
     headers |->
        [accept |-> "application/json",
         user_agent |-> "Mozilla/5.0 (Windows NT 10.0; Win64; x64) AppleWebKit/537.36 (KHTML, like Gecko) Chrome/138.0.0.0 Safari/537.36"]]

HasResponse == apiPc \in {"print_status", "print_text", "done"}

\* C5: when the GET is answered with status 200, what the script has printed
\* is at every moment a prefix of <<"200", body>>, and when it has ended it
\* is exactly the line 200 followed by the unparsed body.
C5_StatusThenBody ==
    (HasResponse /\ response.status_code = 200) =>
        /\ apiPc = "print_status" => apiOut = <<>>
        /\ apiPc = "print_text" => apiOut = <<"200">>
        /\ apiPc = "done" => apiOut = <<"200", response.text>>

C5_Witness ==
    /\ apiPc = "done"
    /\ response.status_code = 200
    /\ apiOut = <<"200", "[{\"field_states\": \"California\"}]">>

\* C6: when the GET raises, the script has ended with that error unhandled:
\* nothing has been printed, no response is bound, and the one request made
\* was not repeated.
C6_UnhandledFailure ==
    apiExc # None =>
        /\ apiPc = "crashed"
        /\ apiOut = <<>>
        /\ response = None
        /\ Len(sent) = 1

C6_Witness ==
    /\ apiPc = "crashed"
    /\ apiExc = ConnectionError
    /\ Len(sent) = 1

C7_OneRequest ==
    /\ Len(sent) <= 1
    /\ (apiPc \in {"print_status", "print_text", "done", "crashed"}) => Len(sent) = 1
    /\ apiOut # <<>> => Len(sent) = 1
    /\ \A i \in 1..Len(sent) : sent[i] = FixedRequest

\* C7: in every run of the script at most one GET has been issued, exactly
\* one once the script is past line 14 (so before anything is printed, and
\* whether it ended normally or by the error), that request is the fixed
\* one, and no step of the script changes a file.
C7_SingleFixedGet == [](C7_OneRequest) /\ [][dest' = dest /\ srcFile' = srcFile]_vars

C7_Witness ==
    /\ apiPc = "crashed"
    /\ apiRuns = 2
    /\ sent = <<FixedRequest>>

====
